---- MODULE Spec2Model ----
(***************************************************************************)
(* A model of servo's TextDecoder (components/script/dom/textdecoder.rs):  *)
(* the streaming decode session built on the encoding_rs codec.            *)
(*                                                                         *)
(* Bytes are numbers 0..255, text is a sequence of Unicode scalar values.  *)
(* The codec (encoding_rs) is modelled by what it does on the byte         *)
(* alphabet Bytes, for four encodings: UTF-8, ISO-2022-JP, and two of the  *)
(* "every other encoding" branch: windows-1252 (one byte is one character) *)
(* and UTF-16LE (an ASCII byte is half a code unit).                       *)
(***************************************************************************)
EXTENDS Integers, Sequences, FiniteSets, TLC

(***************************************************************************)
(* Bounds of the model.                                                    *)
(***************************************************************************)
\* the most bytes supplied between two flushes that the model follows; it
\* bounds in_stream_, which holds a suffix of them
MaxBuf == 3
\* the lengths of the input of one Decode call
InputLengths == 0 .. 2

(***************************************************************************)
(* The byte alphabet: 0x1B ESC, 0x41 'A', 0xA9 (a UTF-8 continuation byte),*)
(* 0xC3 (lead of a 2-byte UTF-8 sequence; C3 A9 is U+00E9) and 0xFF (never *)
(* valid in UTF-8).  Under ISO-2022-JP 0x1B starts an escape and the bytes *)
(* from 0x80 on are malformed; the escape bytes 0x24 and 0x28 are not in   *)
(* the alphabet, so that decoder never leaves its ASCII and escape-start   *)
(* states.  Under windows-1252 every byte is a character.  Under UTF-16LE  *)
(* two bytes are a code unit; no two bytes of the alphabet are a surrogate.*)
(***************************************************************************)
Bytes == {27, 65, 169, 195, 255}

RECURSIVE SeqsUpTo(_, _)
SeqsUpTo(S, n) ==
    IF n = 0 THEN {<<>>}
    ELSE LET shorter == SeqsUpTo(S, n - 1)
         IN  shorter \cup {Append(s, x) : s \in {t \in shorter : Len(t) = n - 1}, x \in S}

\* b[from..] of Rust, with a 0-based start
Tail0(s, from) == SubSeq(s, from + 1, Len(s))
\* b[..to] of Rust, with a 0-based exclusive end
Head0(s, to) == SubSeq(s, 1, to)

(***************************************************************************)
(* encoding_rs: the encodings and the label lookup.                        *)
(***************************************************************************)
UTF_8 == "UTF-8"
ISO_2022_JP == "ISO-2022-JP"
WINDOWS_1252 == "windows-1252"
UTF_16LE == "UTF-16LE"
REPLACEMENT == "replacement"
NoEncoding == "none"

Encodings == {UTF_8, ISO_2022_JP, WINDOWS_1252, UTF_16LE}

\* the labels the model constructs sessions with
Labels == {"utf-8", "iso-2022-jp", "latin1", "utf-16le", "replacement", "bogus-label"}

\* Encoding::for_label: the label table, on the labels of the model
for_label(label) ==
    CASE label = "utf-8" -> UTF_8
      [] label = "iso-2022-jp" -> ISO_2022_JP
      [] label = "latin1" -> WINDOWS_1252
      [] label = "utf-16le" -> UTF_16LE
      [] label = "replacement" -> REPLACEMENT
      [] OTHER -> NoEncoding

\* Encoding::for_label_no_replacement: None also for the replacement encoding
for_label_no_replacement(label) ==
    IF for_label(label) = REPLACEMENT THEN NoEncoding ELSE for_label(label)

(***************************************************************************)
(* encoding_rs: the decoder object.  One record shape for every variant:   *)
(* life_cycle of the Decoder wrapper, the Utf8Decoder fields, the          *)
(* Iso2022JpDecoder state and the Utf16Decoder lead byte (-1 is None).     *)
(***************************************************************************)
REPLACEMENT_CHARACTER == 65533

new_decoder_without_bom_handling(enc) ==
    [encoding |-> enc,
     life_cycle |-> "Converting",
     code_point |-> 0,
     bytes_seen |-> 0,
     bytes_needed |-> 0,
     lower_boundary |-> 128,
     upper_boundary |-> 191,
     decoder_state |-> "Ascii",
     lead_byte |-> -1]

NoDecoder == new_decoder_without_bom_handling(NoEncoding)

RawResult(res, rd, out, d) == [result |-> res, read |-> rd, text |-> out, decoder |-> d]

\* Utf8Decoder: the state after a malformed sequence
Utf8Cleared(d) ==
    [d EXCEPT !.code_point = 0, !.bytes_needed = 0, !.bytes_seen = 0,
              !.lower_boundary = 128, !.upper_boundary = 191]

\* Utf8Decoder::decode_to_utf8_raw from byte i (1-based) of src on; stops at
\* the first malformed sequence.  read counts the bytes consumed.
RECURSIVE Utf8DecodeRaw(_, _, _, _, _)
Utf8DecodeRaw(d, src, i, out, last) ==
    IF i > Len(src)
    THEN IF last /\ d.bytes_needed # 0
         THEN RawResult("Malformed", Len(src), out, Utf8Cleared(d))
         ELSE RawResult("InputEmpty", Len(src), out, d)
    ELSE LET b == src[i] IN
         IF d.bytes_needed = 0
         THEN IF b < 128 THEN Utf8DecodeRaw(d, src, i + 1, Append(out, b), last)
              ELSE IF b < 194 THEN RawResult("Malformed", i, out, d)
              ELSE IF b < 224
                   THEN Utf8DecodeRaw([d EXCEPT !.bytes_needed = 1, !.code_point = b % 32],
                                      src, i + 1, out, last)
              ELSE IF b < 240
                   THEN Utf8DecodeRaw([d EXCEPT !.bytes_needed = 2, !.code_point = b % 16,
                                                !.lower_boundary = IF b = 224 THEN 160 ELSE 128,
                                                !.upper_boundary = IF b = 237 THEN 159 ELSE 191],
                                      src, i + 1, out, last)
              ELSE IF b < 245
                   THEN Utf8DecodeRaw([d EXCEPT !.bytes_needed = 3, !.code_point = b % 8,
                                                !.lower_boundary = IF b = 240 THEN 144 ELSE 128,
                                                !.upper_boundary = IF b = 244 THEN 143 ELSE 191],
                                      src, i + 1, out, last)
              ELSE RawResult("Malformed", i, out, d)
         ELSE IF ~(b >= d.lower_boundary /\ b <= d.upper_boundary)
              \* the byte is unread: it starts the next sequence
              THEN RawResult("Malformed", i - 1, out, Utf8Cleared(d))
              ELSE LET cp == d.code_point * 64 + (b % 64)
                       seen == d.bytes_seen + 1
                   IN  IF seen # d.bytes_needed
                       THEN Utf8DecodeRaw([d EXCEPT !.code_point = cp, !.bytes_seen = seen,
                                                    !.lower_boundary = 128,
                                                    !.upper_boundary = 191],
                                          src, i + 1, out, last)
                       ELSE Utf8DecodeRaw(Utf8Cleared(d), src, i + 1, Append(out, cp), last)

\* Iso2022JpDecoder::decode_to_utf8_raw on the alphabet: states Ascii and
\* EscapeStart (output_state stays Ascii).
RECURSIVE Iso2022JpDecodeRaw(_, _, _, _, _)
Iso2022JpDecodeRaw(d, src, i, out, last) ==
    IF i > Len(src)
    THEN IF last /\ d.decoder_state = "EscapeStart"
         THEN RawResult("Malformed", Len(src), out, [d EXCEPT !.decoder_state = "Ascii"])
         ELSE RawResult("InputEmpty", Len(src), out, d)
    ELSE LET b == src[i] IN
         IF d.decoder_state = "Ascii"
         THEN IF b = 27
              THEN Iso2022JpDecodeRaw([d EXCEPT !.decoder_state = "EscapeStart"],
                                      src, i + 1, out, last)
              ELSE IF b > 127 \/ b = 14 \/ b = 15
                   THEN RawResult("Malformed", i, out, d)
                   ELSE Iso2022JpDecodeRaw(d, src, i + 1, Append(out, b), last)
         \* EscapeStart: a byte that is neither '$' nor '(' ends the escape;
         \* the byte is unread
         ELSE RawResult("Malformed", i - 1, out, [d EXCEPT !.decoder_state = "Ascii"])

\* the windows-1252 index on the alphabet (0xA9, 0xC3 and 0xFF map to
\* U+00A9, U+00C3 and U+00FF; ASCII maps to itself)
Windows1252CodePoint(b) ==
    CASE b = 169 -> 169
      [] b = 195 -> 195
      [] b = 255 -> 255
      [] OTHER -> b

\* SingleByteDecoder::decode_to_utf8_raw: stateless, every byte of the
\* alphabet is mapped
RECURSIVE SingleByteDecodeRaw(_, _, _, _, _)
SingleByteDecodeRaw(d, src, i, out, last) ==
    IF i > Len(src)
    THEN RawResult("InputEmpty", Len(src), out, d)
    ELSE SingleByteDecodeRaw(d, src, i + 1, Append(out, Windows1252CodePoint(src[i])), last)

\* Utf16Decoder::decode_to_utf8_raw, little endian, on the alphabet: the
\* first byte of a code unit waits in lead_byte for the second; a lead byte
\* left at the end of the last input is malformed
RECURSIVE Utf16DecodeRaw(_, _, _, _, _)
Utf16DecodeRaw(d, src, i, out, last) ==
    IF i > Len(src)
    THEN IF last /\ d.lead_byte # -1
         THEN RawResult("Malformed", Len(src), out, [d EXCEPT !.lead_byte = -1])
         ELSE RawResult("InputEmpty", Len(src), out, d)
    ELSE IF d.lead_byte = -1
         THEN Utf16DecodeRaw([d EXCEPT !.lead_byte = src[i]], src, i + 1, out, last)
         ELSE Utf16DecodeRaw([d EXCEPT !.lead_byte = -1], src, i + 1,
                             Append(out, src[i] * 256 + d.lead_byte), last)

\* VariantDecoder::decode_to_utf8_raw
VariantDecodeRaw(d, src, last) ==
    CASE d.encoding = UTF_8 -> Utf8DecodeRaw(d, src, 1, <<>>, last)
      [] d.encoding = ISO_2022_JP -> Iso2022JpDecodeRaw(d, src, 1, <<>>, last)
      [] d.encoding = UTF_16LE -> Utf16DecodeRaw(d, src, 1, <<>>, last)
      [] OTHER -> SingleByteDecodeRaw(d, src, 1, <<>>, last)

\* Decoder::decode_to_utf8_without_replacement, after the variant's call: an
\* exhausted input with last set finishes the decoder
FinishIfLast(r, last) ==
    IF last /\ r.result = "InputEmpty"
    THEN [r EXCEPT !.decoder.life_cycle = "Finished"]
    ELSE r

\* Decoder::decode_to_string_without_replacement: (DecoderResult, read) and
\* the text pushed to the output; a finished decoder panics.  The output
\* string is sized by max_utf8_buffer_length_without_replacement, so
\* OutputFull does not occur.
decode_to_string_without_replacement(d, src, last) ==
    IF d.life_cycle = "Finished"
    THEN RawResult("Panic", 0, <<>>, d)
    ELSE FinishIfLast(VariantDecodeRaw(d, src, last), last)

\* Decoder::decode_to_string: the loop that pushes U+FFFD for every
\* malformed sequence and goes on after it; (CoderResult, read, replaced).
\* r is what the call on src[total_read..] returned.
RECURSIVE decode_to_string_loop(_, _, _, _, _)
decode_to_string_loop(r, src, last, total_read, out) ==
    CASE r.result = "InputEmpty" ->
           RawResult("InputEmpty", total_read + r.read, out \o r.text, r.decoder)
      [] r.result = "Malformed" ->
           decode_to_string_loop(
               decode_to_string_without_replacement(
                   r.decoder, Tail0(src, total_read + r.read), last),
               src, last, total_read + r.read,
               (out \o r.text) \o <<REPLACEMENT_CHARACTER>>)
      [] OTHER -> RawResult("Panic", total_read, out, r.decoder)

decode_to_string(d, src, last) ==
    decode_to_string_loop(decode_to_string_without_replacement(d, src, last),
                          src, last, 0, <<>>)

(***************************************************************************)
(* encoding_rs: the valid-prefix scanners.                                 *)
(***************************************************************************)
\* how many bytes the well-formed UTF-8 sequence starting at byte i (1-based)
\* has; 0 when none starts there (malformed or cut by the end)
Utf8SequenceAt(s, i) ==
    LET b == s[i]
        cont(j, lo, hi) == j <= Len(s) /\ s[j] >= lo /\ s[j] <= hi
    IN  IF b < 128 THEN 1
        ELSE IF b < 194 THEN 0
        ELSE IF b < 224 THEN (IF cont(i + 1, 128, 191) THEN 2 ELSE 0)
        ELSE IF b < 240
             THEN (IF /\ cont(i + 1, IF b = 224 THEN 160 ELSE 128, IF b = 237 THEN 159 ELSE 191)
                      /\ cont(i + 2, 128, 191)
                   THEN 3 ELSE 0)
        ELSE IF b < 245
             THEN (IF /\ cont(i + 1, IF b = 240 THEN 144 ELSE 128, IF b = 244 THEN 143 ELSE 191)
                      /\ cont(i + 2, 128, 191)
                      /\ cont(i + 3, 128, 191)
                   THEN 4 ELSE 0)
        ELSE 0

RECURSIVE Utf8ValidFrom(_, _)
Utf8ValidFrom(s, n) ==
    IF n >= Len(s) THEN n
    ELSE LET k == Utf8SequenceAt(s, n + 1)
         IN  IF k = 0 THEN n ELSE Utf8ValidFrom(s, n + k)

\* Encoding::utf8_valid_up_to
utf8_valid_up_to(s) == Utf8ValidFrom(s, 0)

\* Encoding::ascii_valid_up_to: the length of the longest ASCII prefix
RECURSIVE AsciiValidFrom(_, _)
AsciiValidFrom(s, n) ==
    IF n >= Len(s) \/ s[n + 1] >= 128 THEN n ELSE AsciiValidFrom(s, n + 1)

ascii_valid_up_to(s) == AsciiValidFrom(s, 0)

\* Encoding::iso_2022_jp_ascii_valid_up_to: the longest prefix of ASCII bytes
\* that are none of SO (0x0E), SI (0x0F) and ESC (0x1B)
RECURSIVE Iso2022JpAsciiValidFrom(_, _)
Iso2022JpAsciiValidFrom(s, n) ==
    IF n >= Len(s) \/ s[n + 1] >= 128 \/ s[n + 1] \in {14, 15, 27}
    THEN n
    ELSE Iso2022JpAsciiValidFrom(s, n + 1)

iso_2022_jp_ascii_valid_up_to(s) == Iso2022JpAsciiValidFrom(s, 0)

(***************************************************************************)
(* The TextDecoder object.                                                 *)
(***************************************************************************)
VARIABLES
    ctor,           \* the last Constructor call: its label and what it returned
    encoding,       \* TextDecoder.encoding (NoEncoding while no object exists)
    fatal,          \* TextDecoder.fatal
    decoder_,       \* TextDecoder.decoder_
    in_stream_,     \* TextDecoder.in_stream_
    do_not_flush_,  \* TextDecoder.do_not_flush_
    last,           \* the last Decode call: its arguments, what it handed to
                    \* the codec and what it returned
    epoch,          \* the calls since the last flush: the bytes supplied, the
                    \* text returned, the bytes handed to the codec
    ref,            \* the reference object that decodes without the scan
    got,            \* the last attribute read: the getter and what it returned
    cells           \* the borrow state of the RefCells decoder_ and in_stream_,
                    \* and what the last Decode call did to it

vars == <<ctor, encoding, fatal, decoder_, in_stream_, do_not_flush_, last, epoch, ref,
          got, cells>>

\* the inputs of Decode: None, or Some(bytes)
NoInput == [some |-> FALSE, data |-> <<>>]
Inputs ==
    {NoInput} \cup
    {[some |-> TRUE, data |-> b] :
        b \in {x \in SeqsUpTo(Bytes, MaxBuf) : Len(x) \in InputLengths}}

\* TextDecoder::new_inherited
new_inherited(enc, f) ==
    [encoding |-> enc,
     fatal |-> f,
     decoder_ |-> new_decoder_without_bom_handling(enc),
     in_stream_ |-> <<>>,
     do_not_flush_ |-> FALSE]

NoObject == new_inherited(NoEncoding, FALSE)

\* str::to_ascii_lowercase on the names of the encodings (Encoding::name)
to_ascii_lowercase(name) ==
    CASE name = "UTF-8" -> "utf-8"
      [] name = "ISO-2022-JP" -> "iso-2022-jp"
      [] name = "windows-1252" -> "windows-1252"
      [] name = "UTF-16LE" -> "utf-16le"
      [] OTHER -> name

\* no attribute was read yet
NoRead == [op |-> "None", name |-> "", flag |-> FALSE]

\* the object as one record
This == [encoding |-> encoding, fatal |-> fatal, decoder_ |-> decoder_,
         in_stream_ |-> in_stream_, do_not_flush_ |-> do_not_flush_]

\* a flush that replaces the decoder and forgets to empty in_stream_
Flush_KeepsInStream(self) ==
    IF ~self.do_not_flush_
    THEN [self EXCEPT !.decoder_ = new_decoder_without_bom_handling(self.encoding)]
    ELSE self

\* a flush that empties in_stream_ and goes on with the old decoder
Flush_KeepsDecoder(self) ==
    IF ~self.do_not_flush_
    THEN [self EXCEPT !.in_stream_ = <<>>]
    ELSE self

\* a flush whose test of do_not_flush_ lost its negation
Flush_WhenSet(self) ==
    IF self.do_not_flush_
    THEN [self EXCEPT !.decoder_ = new_decoder_without_bom_handling(self.encoding),
                      !.in_stream_ = <<>>]
    ELSE self

\* a flush that does not look at do_not_flush_
Flush_Always(self) ==
    [self EXCEPT !.decoder_ = new_decoder_without_bom_handling(self.encoding),
                 !.in_stream_ = <<>>]

\* Decode, lines 83-87: the flush of decoder_ and in_stream_
Flush(self) ==
    IF ~self.do_not_flush_
    THEN [self EXCEPT !.decoder_ = new_decoder_without_bom_handling(self.encoding),
                      !.in_stream_ = <<>>]
    ELSE self

\* Decode, lines 91-99: the input is appended to in_stream_
Extend(in_stream, input) ==
    IF input.some THEN in_stream \o input.data ELSE in_stream

\* Decode, lines 116-122: the scanner chosen by the encoding
valid_up_to(enc, in_stream) ==
    IF enc = UTF_8 THEN utf8_valid_up_to(in_stream)
    ELSE IF enc = ISO_2022_JP THEN iso_2022_jp_ascii_valid_up_to(in_stream)
    ELSE ascii_valid_up_to(in_stream)

\* what one branch of Decode comes to: the kind of return ("Ok", "Err" or
\* "Panic"), the text, the decoder, the bytes put back in in_stream_, the
\* slice handed to the codec, the codec's result and read count
Branch(k, t, d, rest, slice, res, rd) ==
    [kind |-> k, text |-> t, decoder_ |-> d, in_stream_ |-> rest,
     handed |-> slice, codec |-> res, read |-> rd]

\* a match that returns the text decoded before the malformed sequence
FatalMatch_PartialText(r, in_stream) ==
    CASE r.result = "Panic" ->
           Branch("Panic", <<>>, r.decoder, in_stream, in_stream, r.result, r.read)
      [] OTHER ->
           Branch("Ok", r.text, r.decoder, Tail0(in_stream, r.read),
                  in_stream, r.result, r.read)

\* a match that, on the error, leaves in in_stream_ only the bytes the codec
\* did not read
FatalMatch_CommitsOnError(r, in_stream) ==
    CASE r.result = "InputEmpty" ->
           Branch("Ok", r.text, r.decoder, Tail0(in_stream, r.read),
                  in_stream, r.result, r.read)
      [] r.result = "Malformed" ->
           Branch("Err", <<>>, r.decoder, Tail0(in_stream, r.read),
                  in_stream, r.result, r.read)
      [] OTHER ->
           Branch("Panic", <<>>, r.decoder, in_stream, in_stream, r.result, r.read)

\* Decode, lines 110-113: the match on the codec's result.  On InputEmpty
\* the bytes from read on stay in in_stream_; on anything else the call
\* returns the error before in_stream_ is replaced, so in_stream_ keeps the
\* whole buffer.
FatalMatch(r, in_stream) ==
    CASE r.result = "InputEmpty" ->
           Branch("Ok", r.text, r.decoder, Tail0(in_stream, r.read),
                  in_stream, r.result, r.read)
      [] r.result = "Malformed" ->
           Branch("Err", <<>>, r.decoder, in_stream, in_stream, r.result, r.read)
      [] OTHER ->
           Branch("Panic", <<>>, r.decoder, in_stream, in_stream, r.result, r.read)

\* Decode, lines 105-114: the fatal branch
FatalBranch(decoder, in_stream, stream) ==
    FatalMatch(decode_to_string_without_replacement(decoder, in_stream, ~stream),
               in_stream)

\* Decode, line 125: the bytes from read on stay in in_stream_
ReplacementSplit(r, in_stream, slice) ==
    IF r.result = "Panic"
    THEN Branch("Panic", <<>>, r.decoder, in_stream, slice, r.result, r.read)
    ELSE Branch("Ok", r.text, r.decoder, Tail0(in_stream, r.read),
                slice, r.result, r.read)

\* Decode, line 124: the slice of in_stream handed to decode_to_string
ReplacementSlice(decoder, in_stream, slice, stream) ==
    ReplacementSplit(decode_to_string(decoder, slice, ~stream), in_stream, slice)

\* a replacement branch that hands the whole of in_stream to the codec
ReplacementBranch_WholeBuffer(enc, decoder, in_stream, stream) ==
    ReplacementSlice(decoder, in_stream, in_stream, stream)

\* Decode, lines 116-125: the replacement branch; the slice is
\* in_stream[..valid_up_to]
ReplacementBranch(enc, decoder, in_stream, stream) ==
    ReplacementSlice(decoder, in_stream, Head0(in_stream, valid_up_to(enc, in_stream)),
                     stream)

\* a decode step that takes the fatal branch whatever the fatal flag says
DecodeStep_AlwaysFatal(self, stream) ==
    FatalBranch(self.decoder_, self.in_stream_, stream)

\* Decode, lines 101-128: the decode step on the flushed and extended object
DecodeStep(self, stream) ==
    IF self.fatal
    THEN FatalBranch(self.decoder_, self.in_stream_, stream)
    ELSE ReplacementBranch(self.encoding, self.decoder_, self.in_stream_, stream)

\* a return that sets do_not_flush_ only when the call succeeded, as if line
\* 89 came after the decode step
DecodeReturn_FlagOnSuccess(self, ready, b, stream) ==
    [self |-> [self EXCEPT !.decoder_ = b.decoder_,
                           !.in_stream_ = b.in_stream_,
                           !.do_not_flush_ = IF b.kind = "Ok" THEN stream ELSE @],
     kind |-> b.kind,
     text |-> b.text,
     flushed |-> ~self.do_not_flush_,
     dec0 |-> ready.decoder_,
     buf |-> ready.in_stream_,
     handed |-> b.handed,
     codec |-> b.codec,
     read |-> b.read]

\* Decode, line 89, lines 129-130 and the error return: the object after the
\* call and what the call did (ready is the object at line 101, b the
\* branch taken)
DecodeReturn(self, ready, b, stream) ==
    [self |-> [self EXCEPT !.decoder_ = b.decoder_,
                           !.in_stream_ = b.in_stream_,
                           !.do_not_flush_ = stream],
     kind |-> b.kind,
     text |-> b.text,
     flushed |-> ~self.do_not_flush_,
     dec0 |-> ready.decoder_,
     buf |-> ready.in_stream_,
     handed |-> b.handed,
     codec |-> b.codec,
     read |-> b.read]

\* Decode, lines 83-99: flush, then append the input
Ready(flushed, input) ==
    [flushed EXCEPT !.in_stream_ = Extend(flushed.in_stream_, input)]

DecodeReady(self, ready, stream) ==
    DecodeReturn(self, ready, DecodeStep(ready, stream), stream)

\* TextDecoder::Decode on the object self
DecodeCall(self, input, stream) ==
    DecodeReady(self, Ready(Flush(self), input), stream)

(***************************************************************************)
(* The reference object of the design notes: the same call without the    *)
(* valid-prefix scan, the whole buffer handed to one substituting call.    *)
(***************************************************************************)
RefDecodeStep(self, stream) ==
    IF self.fatal
    THEN FatalBranch(self.decoder_, self.in_stream_, stream)
    ELSE ReplacementSlice(self.decoder_, self.in_stream_, self.in_stream_, stream)

RefDecodeReady(self, ready, stream) ==
    DecodeReturn(self, ready, RefDecodeStep(ready, stream), stream)

RefDecodeCall(self, input, stream) ==
    RefDecodeReady(self, Ready(Flush(self), input), stream)

(***************************************************************************)
(* The RefCells.  Decode only borrows mutably, so a cell is borrowed or    *)
(* not; borrow_mut on a borrowed cell is the panic "already borrowed",     *)
(* and the call stops there.  A call is the sequence of its borrow_mut and *)
(* drop events, in the order of the code.                                  *)
(***************************************************************************)
BorrowMut(cell) == <<[op |-> "borrow_mut", cell |-> cell]>>
DropGuard(cell) == <<[op |-> "drop", cell |-> cell]>>
\* RefCell::replace: a mutable borrow for the time of the swap
Replace(cell) == BorrowMut(cell) \o DropGuard(cell)

\* Decode, lines 83-87: the two replace calls of the flush
FlushBorrows(flushed) ==
    IF flushed THEN Replace("decoder_") \o Replace("in_stream_") ELSE <<>>

\* Decode, lines 91-99: the temporary borrow_mut of extend_from_slice
ExtendBorrows(input) ==
    IF input.some THEN BorrowMut("in_stream_") \o DropGuard("in_stream_") ELSE <<>>

\* a decode step whose in_stream guard lives in the scope of the function,
\* to its end, and not in the block of lines 102-128
StepBorrows_NoBlock(kind) ==
    (BorrowMut("decoder_") \o BorrowMut("in_stream_")) \o
    (IF kind = "Err"
     THEN DropGuard("in_stream_") \o DropGuard("decoder_")
     ELSE (Replace("in_stream_") \o DropGuard("in_stream_")) \o DropGuard("decoder_"))

\* Decode, lines 101-131: decoder is borrowed at line 101 to the end of the
\* function, in_stream at line 103 to the end of the block (line 128); line
\* 129 replaces in_stream_; the return at line 113 drops both guards, the
\* inner one first
StepBorrows(kind) ==
    (BorrowMut("decoder_") \o BorrowMut("in_stream_")) \o
    (IF kind = "Err"
     THEN DropGuard("in_stream_") \o DropGuard("decoder_")
     ELSE (DropGuard("in_stream_") \o Replace("in_stream_")) \o DropGuard("decoder_"))

\* the borrow events of one Decode call that flushed or not, got this input
\* and returned this kind
DecodeBorrows(flushed, input, kind) ==
    (FlushBorrows(flushed) \o ExtendBorrows(input)) \o StepBorrows(kind)

\* RefCell::new: not borrowed.  conflict: a borrow_mut met a borrowed cell;
\* under_decoder: the cells borrowed while the guard of decoder_ was held
NoBorrows ==
    [decoder_ |-> FALSE, in_stream_ |-> FALSE, conflict |-> FALSE, under_decoder |-> {}]

\* the cells after the event e
BorrowEvent(st, e) ==
    IF e.op = "drop"
    THEN [st EXCEPT ![e.cell] = FALSE]
    ELSE IF st[e.cell]
         THEN [st EXCEPT !.conflict = TRUE]
         ELSE [st EXCEPT ![e.cell] = TRUE,
                         !.under_decoder = IF st.decoder_ THEN @ \cup {e.cell} ELSE @]

\* the cells after the events of trace from the i-th on; a conflict ends
\* the call
RECURSIVE RunBorrows(_, _, _)
RunBorrows(st, trace, i) ==
    IF i > Len(trace) \/ st.conflict
    THEN st
    ELSE RunBorrows(BorrowEvent(st, trace[i]), trace, i + 1)

(***************************************************************************)
(* The history the properties read.                                        *)
(***************************************************************************)
NoCall ==
    [kind |-> "None", text |-> <<>>, input |-> NoInput, stream |-> FALSE,
     first |-> FALSE, after_stream |-> FALSE, after_kind |-> "None",
     only_empty |-> FALSE,
     dirty |-> FALSE, carried |-> NoObject,
     flushed |-> FALSE, dec0 |-> NoDecoder, buf |-> <<>>, handed |-> <<>>,
     codec |-> "None", read |-> 0]

\* the record of the call that returned c on the object before: dirty says
\* that a flush had bytes or decoder state to discard, carried is the object
\* a call without flush went on with, only_empty says that this call and all
\* the calls before it had no bytes and stream = false
CallRecord(c, before, input, stream) ==
    [kind |-> c.kind, text |-> c.text, input |-> input, stream |-> stream,
     first |-> (last.kind = "None"),
     after_stream |-> last.stream,
     after_kind |-> last.kind,
     only_empty |-> /\ last.kind = "None" \/ last.only_empty
                    /\ input.data = <<>>
                    /\ ~stream,
     dirty |-> (c.flushed /\ before # new_inherited(before.encoding, before.fatal)),
     carried |-> (IF c.flushed THEN NoObject ELSE before),
     flushed |-> c.flushed, dec0 |-> c.dec0, buf |-> c.buf,
     handed |-> c.handed, codec |-> c.codec, read |-> c.read]

NoEpoch ==
    [supplied |-> <<>>, text |-> <<>>, handed_to |-> 0, rehanded |-> FALSE,
     failed |-> FALSE]

Max(a, b) == IF a >= b THEN a ELSE b

\* the epoch after a call that returned c: e is the epoch the call belongs
\* to (a new one when the call flushed).  c.buf is a suffix of the bytes
\* supplied, so the slice handed to the codec starts at byte
\* Len(supplied) - Len(c.buf) of the epoch.
EpochAfter(e, c, input) ==
    [supplied |-> e.supplied \o input.data,
     text |-> e.text \o c.text,
     handed_to |-> Max(e.handed_to,
                       Len(e.supplied) + Len(input.data) - Len(c.buf) + Len(c.handed)),
     rehanded |-> \/ e.rehanded
                  \/ /\ Len(c.handed) > 0
                     /\ Len(e.supplied) + Len(input.data) - Len(c.buf) < e.handed_to,
     failed |-> (e.failed \/ c.kind = "Err")]

\* the bytes supplied since the last flush once input is appended
SuppliedWith(self, input) ==
    IF ~self.do_not_flush_ THEN input.data ELSE epoch.supplied \o input.data

(***************************************************************************)
(* The actions.                                                            *)
(***************************************************************************)
Init ==
    /\ ctor = [result |-> "NotCalled", label |-> ""]
    /\ encoding = NoEncoding
    /\ fatal = FALSE
    /\ decoder_ = NoDecoder
    /\ in_stream_ = <<>>
    /\ do_not_flush_ = FALSE
    /\ last = NoCall
    /\ epoch = NoEpoch
    /\ ref = [self |-> NoObject, kind |-> "None", text |-> <<>>]
    /\ got = NoRead
    /\ cells = NoBorrows

\* a constructor that does not look at the result of the lookup
Construct_Unchecked(enc, label, options_fatal) ==
    /\ ctor' = [result |-> "Ok", label |-> label]
    /\ encoding' = new_inherited(enc, options_fatal).encoding
    /\ fatal' = new_inherited(enc, options_fatal).fatal
    /\ decoder_' = new_inherited(enc, options_fatal).decoder_
    /\ in_stream_' = new_inherited(enc, options_fatal).in_stream_
    /\ do_not_flush_' = new_inherited(enc, options_fatal).do_not_flush_
    /\ ref' = [ref EXCEPT !.self = new_inherited(enc, options_fatal)]

\* Constructor, lines 57-61: the object made for the encoding enc, or the
\* RangeError
Construct(enc, label, options_fatal) ==
    IF enc = NoEncoding
    THEN /\ ctor' = [result |-> "Range", label |-> label]
         /\ UNCHANGED <<encoding, fatal, decoder_, in_stream_, do_not_flush_, ref>>
    ELSE /\ ctor' = [result |-> "Ok", label |-> label]
         /\ encoding' = new_inherited(enc, options_fatal).encoding
         /\ fatal' = new_inherited(enc, options_fatal).fatal
         /\ decoder_' = new_inherited(enc, options_fatal).decoder_
         /\ in_stream_' = new_inherited(enc, options_fatal).in_stream_
         /\ do_not_flush_' = new_inherited(enc, options_fatal).do_not_flush_
         /\ ref' = [ref EXCEPT !.self = new_inherited(enc, options_fatal)]

\* TextDecoder::Constructor
Constructor(label, options_fatal) ==
    /\ ctor.result # "Ok"
    /\ Construct(for_label_no_replacement(label), label, options_fatal)
    /\ UNCHANGED <<last, epoch, got, cells>>

\* the object and the history after Decode returned c
Returned(c, input, stream) ==
    /\ decoder_' = c.self.decoder_
    /\ in_stream_' = c.self.in_stream_
    /\ do_not_flush_' = c.self.do_not_flush_
    /\ last' = CallRecord(c, This, input, stream)
    /\ epoch' = EpochAfter(IF c.flushed THEN NoEpoch ELSE epoch, c, input)
    /\ cells' = RunBorrows([cells EXCEPT !.under_decoder = {}],
                           DecodeBorrows(c.flushed, input, c.kind), 1)

\* the reference object after the same call returned c
RefReturned(c) ==
    ref' = [self |-> c.self, kind |-> c.kind, text |-> c.text]

\* TextDecoder::Decode
Decode(input, stream) ==
    /\ ctor.result = "Ok"
    /\ last.kind # "Panic"
    /\ ~cells.conflict
    /\ Len(SuppliedWith(This, input)) <= MaxBuf
    /\ Returned(DecodeCall(This, input, stream), input, stream)
    /\ RefReturned(RefDecodeCall(ref.self, input, stream))
    /\ UNCHANGED <<ctor, encoding, fatal, got>>

\* TextDecoder::Encoding, lines 68-70: the name of the encoding, lower-cased
Encoding ==
    /\ ctor.result = "Ok"
    /\ got' = [op |-> "Encoding", name |-> to_ascii_lowercase(encoding), flag |-> FALSE]
    /\ UNCHANGED <<ctor, encoding, fatal, decoder_, in_stream_, do_not_flush_,
                   last, epoch, ref, cells>>

\* a getter that reads the other boolean field of the object
Fatal_ReadsStreamFlag ==
    /\ ctor.result = "Ok"
    /\ got' = [op |-> "Fatal", name |-> "", flag |-> do_not_flush_]
    /\ UNCHANGED <<ctor, encoding, fatal, decoder_, in_stream_, do_not_flush_,
                   last, epoch, ref, cells>>

\* TextDecoder::Fatal, lines 73-75
Fatal ==
    /\ ctor.result = "Ok"
    /\ got' = [op |-> "Fatal", name |-> "", flag |-> fatal]
    /\ UNCHANGED <<ctor, encoding, fatal, decoder_, in_stream_, do_not_flush_,
                   last, epoch, ref, cells>>

Next ==
    \/ \E label \in Labels, options_fatal \in BOOLEAN : Constructor(label, options_fatal)
    \/ \E input \in Inputs, stream \in BOOLEAN : Decode(input, stream)

\* the constructor and Decode; the getters write none of the object's
\* fields, so the properties of Decode are stated over this specification
Spec == Init /\ [][Next]_vars

NextWithGetters ==
    \/ \E label \in Labels, options_fatal \in BOOLEAN : Constructor(label, options_fatal)
    \/ \E input \in Inputs, stream \in BOOLEAN : Decode(input, stream)
    \/ Encoding
    \/ Fatal

\* every method of the object
SpecWithGetters == Init /\ [][NextWithGetters]_vars

(***************************************************************************)
(* Properties.                                                             *)
(***************************************************************************)
Called == last.kind # "None"

\* the object as the constructor makes it for this encoding and fatal flag
Fresh == new_inherited(encoding, fatal)

\* what the codec makes of the complete byte sequence b, decoded without
\* replacement in one call
Strict(enc, b) ==
    decode_to_string_without_replacement(new_decoder_without_bom_handling(enc), b, TRUE)

\* b is fully decodable without error
Decodable(enc, b) == Strict(enc, b).result = "InputEmpty"

\* the last call came out as the call c
SameOutcome(c) ==
    /\ last.kind = c.kind
    /\ last.text = c.text
    /\ in_stream_ = c.self.in_stream_
    /\ do_not_flush_ = c.self.do_not_flush_

\* C1: a call that follows a call made with stream = false returns what the
\* same call returns on a freshly constructed object of the same encoding
\* and fatal flag, and leaves the same in_stream_ and do_not_flush_
\* (whatever the earlier calls were and whether the preceding call failed).
C1_CallAfterFinalCallIsFresh ==
    (Called /\ ~last.first /\ ~last.after_stream)
        => SameOutcome(DecodeCall(Fresh, last.input, last.stream))

\* C1: the preceding call failed with stream = false and left bytes behind,
\* and this call returned text
C1_Witness ==
    /\ Called /\ ~last.first /\ ~last.after_stream
    /\ last.after_kind = "Err"
    /\ last.dirty
    /\ last.kind = "Ok"
    /\ last.text # <<>>

\* C2: chunk-split invariance.  When the bytes supplied since the last flush
\* are fully decodable and the call that ends the stream (stream = false)
\* returns, no call of the stream failed and the texts returned, put
\* together, are the text one call with all the bytes returns on a fresh
\* object; for every way the bytes were cut, in both modes.
C2_ChunkSplitInvariance ==
    (Called /\ ~last.stream /\ Decodable(encoding, epoch.supplied))
        => /\ last.kind = "Ok"
           /\ ~epoch.failed
           /\ epoch.text =
                  DecodeCall(Fresh, [some |-> TRUE, data |-> epoch.supplied], FALSE).text

\* C2: 'A', 0xC3 was supplied with stream = true and 0xA9 with stream =
\* false, cutting U+00E9 in the middle
C2_Witness ==
    /\ Called /\ ~last.stream /\ last.after_stream /\ ~last.flushed
    /\ encoding = UTF_8
    /\ epoch.supplied = <<65, 195, 169>>
    /\ last.input.data = <<169>>
    /\ epoch.text = <<65, 233>>

\* t contains U+FFFD
HasReplacement(t) == \E i \in 1 .. Len(t) : t[i] = REPLACEMENT_CHARACTER

\* C3: without the fatal flag, a call with stream = false whose bytes hold a
\* sequence invalid for the encoding succeeds, and its text contains U+FFFD.
C3_ReplacementCharacterForInvalid ==
    (Called /\ ~fatal /\ last.flushed /\ ~last.stream /\ ~Decodable(encoding, last.buf))
        => (last.kind = "Ok" /\ HasReplacement(last.text))

\* C4: without the fatal flag, every call returns the text the reference
\* object returns, which went through the same calls and hands the whole
\* buffer to decode_to_string.
C4_ScanIsPureOptimization ==
    (Called /\ ~fatal) => (last.kind = ref.kind /\ last.text = ref.text)

\* C5: with the fatal flag, a call whose buffer (the bytes carried over and
\* the input) makes the codec report a malformed sequence fails and returns
\* no text, also when the codec decoded text before the malformed sequence.
C5_FatalErrorReturnsNoText ==
    (/\ Called /\ fatal
     /\ decode_to_string_without_replacement(last.dec0, last.buf, ~last.stream).result
            = "Malformed")
        => (last.kind = "Err" /\ last.text = <<>>)

\* C5: the call failed on a buffer that holds carried-over bytes, after the
\* codec had decoded text
C5_Witness ==
    /\ Called /\ fatal
    /\ last.kind = "Err"
    /\ last.carried.in_stream_ # <<>>
    /\ decode_to_string_without_replacement(last.dec0, last.buf, ~last.stream).text # <<>>

\* C6: without the fatal flag every call returns text, never an error.
C6_ReplacementNeverFails ==
    (Called /\ ~fatal) => last.kind = "Ok"

\* C6: a later call of an object without the fatal flag returned text for a
\* buffer that holds a malformed sequence
C6_Witness ==
    /\ Called /\ ~fatal /\ ~last.first
    /\ ~Decodable(encoding, last.buf)
    /\ last.kind = "Ok"

\* C7: a call replaces the decoder by a new one and empties in_stream_ before
\* it appends its input exactly when it is the first call or the preceding
\* call was made with stream = false; after a call made with stream = true,
\* returned or failed, the decoder and in_stream_ are carried over as they
\* are.
C7_FlushExactlyAfterFinalCall ==
    Called =>
        /\ last.flushed <=> (last.first \/ ~last.after_stream)
        /\ (last.first \/ ~last.after_stream)
               => /\ last.dec0 = new_decoder_without_bom_handling(encoding)
                  /\ last.buf = last.input.data
        /\ (~last.first /\ last.after_stream)
               => /\ last.dec0 = last.carried.decoder_
                  /\ last.buf = last.carried.in_stream_ \o last.input.data

\* C7: the preceding call failed with stream = true, and this call went on
\* with the bytes it left
C7_Witness ==
    /\ Called
    /\ last.after_kind = "Err"
    /\ last.after_stream
    /\ ~last.flushed
    /\ last.carried.in_stream_ # <<>>

\* C8: with the fatal flag, the call after a failed call succeeds when its
\* own input is a complete well-formed byte sequence, and returns the text of
\* that input.
C8_NotPoisonedByError ==
    (/\ Called /\ fatal
     /\ last.after_kind = "Err"
     /\ Decodable(encoding, last.input.data))
        => (last.kind = "Ok" /\ last.text = Strict(encoding, last.input.data).text)

\* C9: after a call that returned text, in_stream_ is the buffer from the
\* codec's read count on, the bytes supplied since the last flush before that
\* suffix have all been handed to the codec and none of them twice; and with
\* the fatal flag and stream = true a buffer whose only defect is an
\* incomplete sequence at its end returns the text decoded so far.
C9_EveryByteHandedOnce ==
    /\ (Called /\ last.kind = "Ok")
           => /\ in_stream_ = Tail0(last.buf, last.read)
              /\ epoch.handed_to = Len(epoch.supplied) - Len(in_stream_)
              /\ ~epoch.rehanded
    /\ (/\ Called /\ fatal /\ last.stream
        /\ decode_to_string_without_replacement(last.dec0, last.buf, FALSE).result
               = "InputEmpty")
           => /\ last.kind = "Ok"
              /\ last.text =
                     decode_to_string_without_replacement(last.dec0, last.buf, FALSE).text

\* C10: a label the lookup does not resolve makes the constructor fail with
\* the RangeError and no object exists; a label it resolves gives an object
\* of that encoding with a new decoder, an empty in_stream_ and do_not_flush_
\* unset.
C10_ConstructorRangeError ==
    /\ ctor.result # "NotCalled"
           => (ctor.result = "Range" <=> for_label_no_replacement(ctor.label) = NoEncoding)
    /\ ctor.result # "Ok"
           => (This = NoObject /\ ~Called)
    /\ ctor.result = "Ok"
           => /\ encoding = for_label_no_replacement(ctor.label)
              /\ encoding \in Encodings
    /\ (ctor.result = "Ok" /\ ~Called)
           => /\ decoder_ = new_decoder_without_bom_handling(encoding)
              /\ in_stream_ = <<>>
              /\ do_not_flush_ = FALSE

\* C10: the constructor was called with the label "replacement", which the
\* lookup without the replacement encoding does not resolve
C10_Witness ==
    /\ ctor.result = "Range"
    /\ ctor.label = "replacement"

\* C11: once the object is constructed, no step changes encoding or fatal
\* (no Decode call, returned or failed, and no getter); Encoding returns
\* the lower-cased name of that encoding and Fatal that flag every time
\* they are called; and a getter leaves decoder_, in_stream_ and
\* do_not_flush_ as they are.
C11_EncodingAndFatalNeverChange ==
    /\ [](ctor.result = "Ok" =>
             /\ got.op = "Encoding" =>
                    got.name = to_ascii_lowercase(for_label_no_replacement(ctor.label))
             /\ got.op = "Fatal" => got.flag = fatal)
    /\ [][ctor.result = "Ok" =>
             /\ encoding' = encoding
             /\ fatal' = fatal
             /\ got' # got => UNCHANGED <<decoder_, in_stream_, do_not_flush_>>]_vars

\* C11: Fatal was read on an object with the fatal flag whose last call
\* failed with stream = true, leaving bytes in in_stream_
C11_Witness ==
    /\ got.op = "Fatal"
    /\ got.flag
    /\ last.kind = "Err"
    /\ do_not_flush_
    /\ in_stream_ # <<>>

\* C12: on a newly constructed object, with or without the fatal flag, a
\* call with no bytes (no input, or an empty one) and stream = false returns
\* the empty text, and so does every such call that follows it; in_stream_
\* is empty after each of them.
C12_EmptyFinalCallsReturnEmpty ==
    (Called /\ last.only_empty)
        => (last.kind = "Ok" /\ last.text = <<>> /\ in_stream_ = <<>>)

\* C12: a repeated call without input, on an object with the fatal flag
C12_Witness ==
    /\ Called /\ last.only_empty
    /\ ~last.first
    /\ ~last.input.some
    /\ fatal
    /\ last.text = <<>>

\* C13 as stated: with the fatal flag, a call that fails leaves in_stream_
\* as it was before the call.
C13_FailedCallKeepsInStreamOfBefore ==
    [][(fatal /\ last' # last /\ last'.kind = "Err") => in_stream_' = in_stream_]_vars

\* C13 amended: with the fatal flag, a call that fails leaves in in_stream_
\* the whole buffer it decoded, that is the bytes in_stream_ held before the
\* call (none when the call flushed) followed by the call's input, and in
\* decoder_ the decoder as the codec left it.
C13_FailedCallKeepsBuffer ==
    (Called /\ fatal /\ last.kind = "Err")
        => /\ in_stream_ =
                  (IF last.flushed THEN <<>> ELSE last.carried.in_stream_)
                      \o last.input.data
           /\ decoder_ =
                  decode_to_string_without_replacement(
                      last.dec0, last.buf, ~last.stream).decoder

\* C13: a call that went on with a decoder holding the start of a sequence
\* failed on its own input; the input is in in_stream_ and the decoder is
\* not the one the call started with
C13_Witness ==
    /\ Called /\ fatal /\ last.kind = "Err"
    /\ ~last.flushed
    /\ last.carried.in_stream_ = <<>>
    /\ last.input.data # <<>>
    /\ in_stream_ = last.input.data
    /\ decoder_ # last.dec0

\* what the codec makes of the complete byte sequence b, decoded with
\* replacement in one call
Lossy(enc, b) == decode_to_string(new_decoder_without_bom_handling(enc), b, TRUE)

\* C14: without the fatal flag, when the call that ends a stream (stream =
\* false) returns, no byte supplied since the last flush is left in
\* in_stream_, all of them were handed to the codec, and the texts returned
\* since the flush, put together, hold every one of them as decoded text or
\* as U+FFFD.
C14_BytesBehindValidPrefixDecoded ==
    (Called /\ ~fatal /\ ~last.stream)
        => /\ in_stream_ = <<>>
           /\ epoch.handed_to = Len(epoch.supplied)
           /\ epoch.text = Lossy(encoding, epoch.supplied).text

\* the length in bytes of the longest sequence of an encoding: a 4-byte
\* UTF-8 sequence, a 3-byte ISO-2022-JP escape sequence, a UTF-16 surrogate
\* pair, one byte otherwise
LongestSequence(enc) ==
    CASE enc = UTF_8 -> 4
      [] enc = ISO_2022_JP -> 3
      [] enc = UTF_16LE -> 4
      [] OTHER -> 1

\* C15: with the fatal flag, the bytes in_stream_ carries to the next call
\* (those left by a call made with stream = true, returned or failed) are
\* fewer than the longest sequence of the encoding.
C15_FatalInStreamBounded ==
    (ctor.result = "Ok" /\ Called /\ fatal /\ do_not_flush_)
        => Len(in_stream_) < LongestSequence(encoding)

\* C16: a decoder that a call handed to the codec with last = true (a call
\* made with stream = false) is not handed to the codec again: the call that
\* follows, with or without the fatal flag and whether that call returned
\* or failed, hands a new decoder to the codec; and no call hands a
\* finished decoder to the codec, so none ends in the codec's panic.
C16_FinalDecoderNeverReused ==
    Called =>
        /\ (~last.first /\ ~last.after_stream)
               => /\ last.flushed
                  /\ last.dec0 = new_decoder_without_bom_handling(encoding)
        /\ last.dec0.life_cycle = "Converting"
        /\ last.codec # "Panic"
        /\ last.kind # "Panic"

\* C16: the preceding call failed with stream = false and left a decoder
\* and bytes behind; this call, made with stream = true, started anew
C16_Witness ==
    /\ Called /\ ~last.first
    /\ ~last.after_stream
    /\ last.after_kind = "Err"
    /\ last.dirty
    /\ last.stream
    /\ last.dec0 = new_decoder_without_bom_handling(encoding)

\* the call was made with stream = true and went on from bytes whose valid
\* prefix is empty
WentOnBehindValidPrefix ==
    /\ last.stream /\ ~last.flushed
    /\ last.carried.in_stream_ # <<>>
    /\ valid_up_to(encoding, last.carried.in_stream_) = 0

\* the input of the call was put behind the bytes carried over, and no text
\* returned
InputPutBehind ==
    /\ last.text = <<>>
    /\ in_stream_ = last.carried.in_stream_ \o last.input.data

\* C17 as stated: without the fatal flag the codec reads no more than the
\* valid prefix; a call whose buffer has an empty valid prefix returns the
\* empty text and leaves the whole buffer in in_stream_; and every call
\* made with stream = true that goes on from such bytes returns the empty
\* text and leaves in_stream_ longer by its input.
C17_StuckBehindValidPrefix ==
    (Called /\ ~fatal)
        => /\ last.read <= valid_up_to(encoding, last.buf)
           /\ valid_up_to(encoding, last.buf) = 0
                  => (last.text = <<>> /\ in_stream_ = last.buf)
           /\ WentOnBehindValidPrefix => InputPutBehind

\* b is the start of a sequence that the end of b cuts short
CutShort(enc, b) ==
    /\ b # <<>>
    /\ decode_to_string_without_replacement(
           new_decoder_without_bom_handling(enc), b, FALSE).result = "InputEmpty"
    /\ decode_to_string_without_replacement(
           new_decoder_without_bom_handling(enc), b, FALSE).text = <<>>

\* the decoder d holds the start of a sequence: the end of the input is
\* malformed for it
HoldsCutSequence(d) ==
    decode_to_string_without_replacement(d, <<>>, TRUE).result = "Malformed"

\* C17 amended: without the fatal flag the codec reads no more than the
\* valid prefix; a call whose buffer has an empty valid prefix leaves the
\* whole buffer in in_stream_ and returns the empty text, or U+FFFD alone
\* when it is made with stream = false and the decoder holds the start of a
\* sequence (the first byte of a UTF-16 code unit); and every call made
\* with stream = true that goes on from such bytes returns the empty text
\* and leaves in_stream_ longer by its input, unless the bytes are the start
\* of a UTF-8 sequence cut short, which the input may complete.
C17_StuckBehindInvalidByte ==
    (Called /\ ~fatal)
        => /\ last.read <= valid_up_to(encoding, last.buf)
           /\ valid_up_to(encoding, last.buf) = 0
                  => /\ in_stream_ = last.buf
                     /\ last.text =
                            (IF ~last.stream /\ HoldsCutSequence(last.dec0)
                             THEN <<REPLACEMENT_CHARACTER>> ELSE <<>>)
           /\ (WentOnBehindValidPrefix
                /\ ~(encoding = UTF_8 /\ CutShort(encoding, last.carried.in_stream_)))
                  => InputPutBehind

\* C17: a call made with stream = true went on from the byte 0xFF with the
\* input 'A', under UTF-8; it returned no text and 'A' stays behind 0xFF
C17_Witness ==
    /\ Called /\ ~fatal
    /\ encoding = UTF_8
    /\ WentOnBehindValidPrefix
    /\ last.carried.in_stream_ = <<255>>
    /\ last.input.data = <<65>>
    /\ last.text = <<>>
    /\ in_stream_ = <<255, 65>>

\* C18: no borrow_mut of a Decode call meets a borrowed cell: in_stream_ is
\* free again when line 129 replaces it; while decoder_ is borrowed only
\* in_stream_ is borrowed beside it; and when the call is over, returned or
\* failed, both cells are free, so the next call starts with free cells.
C18_NoBorrowConflict ==
    ctor.result = "Ok" =>
        /\ ~cells.conflict
        /\ ~cells.decoder_
        /\ ~cells.in_stream_
        /\ cells.under_decoder \subseteq {"in_stream_"}

\* C18: a call that followed a failed call without a flush borrowed
\* decoder_ and in_stream_, replaced in_stream_ and returned
C18_Witness ==
    /\ Called
    /\ last.after_kind = "Err"
    /\ ~last.flushed
    /\ last.input.some
    /\ last.kind = "Ok"
    /\ cells.under_decoder = {"in_stream_"}
    /\ ~cells.conflict

====
